---- MODULE Spec2Model ----
(***************************************************************************)
(* Model of source/ota_task.c: the bring-up task ota_task (Wi-Fi join with *)
(* a bounded, fixed-interval retry loop, then IotSdk_Init,                 *)
(* IotNetworkSecureSockets_Init, IotMqtt_Init and cy_ota_agent_start) and  *)
(* the event sink ota_callback that the started OTA agent invokes.         *)
(*                                                                         *)
(* The calls into the Wi-Fi connection manager, the IoT SDK and the OTA    *)
(* middleware are external: each one is a step whose outcome is chosen     *)
(* nondeterministically.  CY_ASSERT is a macro of the platform headers:    *)
(* in a build with assertions it stops the task for good, in a build with  *)
(* NDEBUG it expands to nothing and the statement after it runs.  Both     *)
(* builds are behaviours of this source.                                   *)
(***************************************************************************)
EXTENDS Integers, Sequences, FiniteSets, Bags, TLC

VARIABLES
    cfg_retries,        \* the retry bound the build is configured with
    ndebug,             \* the build defines NDEBUG: CY_ASSERT(0) is empty
    event_budget,       \* number of events the agent emits in this run
    rare_budget,        \* number of connects failing with an unusual code
    pc,                 \* position of the bring-up task in ota_task
    conn_retries,       \* connect_to_wifi_ap: loop counter
    result,             \* connect_to_wifi_ap: result of the last connect
    wcm_result,         \* what cy_wcm_init returned (the code discards it)
    sinceAttempt,       \* time elapsed since the last connect attempt began
    calls,              \* history: external calls made by the task, in order
    out,                \* history: lines printed by the task, in order
    network_interface,  \* ota_network_params.network_interface
    ota_context,        \* the global OTA context (agent handle)
    sink,               \* history: (cb_func, cb_arg) pairs handed to the agent
    agentAlive,         \* the agent's own execution context exists
    agentState,         \* agent: current state code
    lastError,          \* agent: last error code
    events,             \* history: events the agent emitted, in order
    records,            \* history: lines printed by ota_callback, in order
    cb_calls            \* history: per invocation of ota_callback, the calls it made

taskVars  == <<pc, conn_retries, result, wcm_result, sinceAttempt, calls, out,
               network_interface>>
agentVars == <<agentAlive, agentState, lastError>>
cfgVars   == <<cfg_retries, ndebug, event_budget, rare_budget>>
vars == <<cfg_retries, ndebug, event_budget, rare_budget, pc, conn_retries, result, wcm_result,
          sinceAttempt, calls, out, network_interface, ota_context, sink,
          agentAlive, agentState, lastError, events, records, cb_calls>>

----------------------------------------------------------------------------
(* Program constants *)

MAX_CONNECTION_RETRIES   == 10
WIFI_CONN_RETRY_DELAY_MS == 500
CY_RSLT_SUCCESS          == 0

(* Bounds of the model *)

MaxRetryBound == 2      \* small retry bounds explored beside the built one
MaxJitter     == 1      \* vTaskDelay may overrun the requested delay by this
MaxErrCode    == 2      \* error codes 1..MaxErrCode
MaxRareErrs   == 1      \* failed connects of a run with another code than the usual
MaxEvents     == 2      \* events the agent emits in one run

(* Retry bounds a build may be configured with (N > 0); the value compiled *)
(* into this repository is among them.                                     *)
RetryBounds == (1..MaxRetryBound) \cup {MAX_CONNECTION_RETRIES}

ErrCodes    == 1..MaxErrCode
ResultCodes == {CY_RSLT_SUCCESS} \cup ErrCodes

NoResult == CY_RSLT_SUCCESS - 1   \* a local not yet assigned
NullCtx  == "NULL"
Handle   == "ota_ctx_0"

(* Code spaces of the OTA middleware: in-range values and one out-of-range *)
(* value each for callback reasons and agent states; the (state, last      *)
(* error) situations a running agent passes through.                       *)
KnownReasons == {1}
ReasonCodes  == KnownReasons \cup {255}
KnownStates  == {2, 3}
StateCodes   == KnownStates \cup {255}
KnownErrors  == {CY_RSLT_SUCCESS} \cup {1}
AgentErrors  == KnownErrors
AgentSituations == {[state |-> 2, err |-> CY_RSLT_SUCCESS],
                    [state |-> 3, err |-> 1]}
(* The events the agent delivers: <<reason, value>>. *)
AgentEvents == {<<1, 42>>, <<255, 0>>}
Values      == {e[2] : e \in AgentEvents}

----------------------------------------------------------------------------
(* Lines the task prints *)

MsgConnected    == "Successfully connected to Wi-Fi network"
MsgExceeded     == "Exceeded maximum Wi-Fi connection attempts"
MsgWifiFatal    == "Failed to connect to Wi-FI AP."
MsgSdkFatal     == "IotSdk_Init Failed."
MsgSocketsFatal == "IotNetworkSecureSockets_Init Failed."
MsgMqttFatal    == "IotMqtt_Init Failed."
MsgAgentFatal   == "Initializing and starting the OTA agent failed."

(* The per-attempt failure line: "... error code %d.Retrying in %d ms..."  *)
(* with (int) result and WIFI_CONN_RETRY_DELAY_MS.                         *)
MsgConnFailed(r) ==
    "Connection to Wi-Fi network failed with error code " \o ToString(r)
        \o ".Retrying in " \o ToString(WIFI_CONN_RETRY_DELAY_MS) \o " ms..."

Call(fn, ok) == [fn |-> fn, ok |-> ok]

WcmResults == {CY_RSLT_SUCCESS} \cup {1}

NetIf == "IOT_NETWORK_INTERFACE_CY_SECURE_SOCKETS"

(* The agent parameters of the source: the sink and its opaque context. *)
ota_agent_params == [cb_func |-> "ota_callback", cb_arg |-> "&ota_context"]

----------------------------------------------------------------------------
(* The state when ota_task is entered: locals unassigned, the globals as   *)
(* their definitions leave them, nothing called or printed, no agent.      *)
Boot ==
    /\ pc = "start"
    /\ conn_retries = 0
    /\ result = NoResult
    /\ wcm_result = NoResult
    /\ sinceAttempt = 0
    /\ calls = <<>>
    /\ out = <<>>
    /\ network_interface = NullCtx
    /\ ota_context = NullCtx
    /\ sink = <<>>
    /\ agentAlive = FALSE
    /\ agentState = 2
    /\ lastError = CY_RSLT_SUCCESS
    /\ events = <<>>
    /\ records = <<>>
    /\ cb_calls = <<>>

(* Bring-up in depth: every retry bound, both builds; an access point      *)
(* that fails with the usual code and up to MaxRareErrs times with another *)
(* one, an agent that reports one event.                                   *)
Init ==
    /\ cfg_retries \in RetryBounds
    /\ ndebug \in BOOLEAN
    /\ event_budget = 1
    /\ rare_budget = MaxRareErrs
    /\ Boot

(* The sink in depth: every retry bound, both builds; an access point      *)
(* that fails with the usual code only, an agent that reports up to        *)
(* MaxEvents events.                                                       *)
SinkInit ==
    /\ cfg_retries \in RetryBounds
    /\ ndebug \in BOOLEAN
    /\ event_budget = MaxEvents
    /\ rare_budget = 0
    /\ Boot

----------------------------------------------------------------------------
(* ota_task and connect_to_wifi_ap *)

(* printf of the fatal diagnostic followed by CY_ASSERT(0): with           *)
(* assertions the task stops; with NDEBUG the macro is empty and the task  *)
(* goes on at next, the statement that follows the if-block in the source. *)
Fatal(msg, next) ==
    /\ out' = Append(out, msg)
    /\ pc' = IF ndebug THEN next ELSE "halted"

(* The for-loop test of connect_to_wifi_ap with counter value c: another   *)
(* attempt, or the exit past the loop (the "Exceeded" line and return).    *)
ForTest(c) ==
    IF c < cfg_retries
    THEN /\ pc' = "connect"
         /\ out' = out
    ELSE /\ pc' = "join_return"
         /\ out' = Append(out, MsgExceeded)

(* Variant: a failed cy_wcm_init ends connect_to_wifi_ap at once. *)
WcmInit_ChecksResult ==
    /\ pc = "start"
    /\ \E r \in WcmResults :
          /\ wcm_result' = r
          /\ calls' = Append(calls, Call("cy_wcm_init", r = CY_RSLT_SUCCESS))
          /\ IF r = CY_RSLT_SUCCESS
             THEN /\ result' = result
                  /\ ForTest(0)
             ELSE /\ result' = r
                  /\ pc' = "join_return"
                  /\ out' = out
    /\ conn_retries' = 0
    /\ UNCHANGED <<cfgVars, sinceAttempt, network_interface,
                   ota_context, sink, agentVars, events, records, cb_calls>>

(* connect_to_wifi_ap up to the first loop test: cy_wcm_init is called,    *)
(* its return value is not looked at, conn_retries starts at 0.            *)
WcmInit ==
    /\ pc = "start"
    /\ \E r \in WcmResults :
          /\ wcm_result' = r
          /\ calls' = Append(calls, Call("cy_wcm_init", r = CY_RSLT_SUCCESS))
    /\ conn_retries' = 0
    /\ ForTest(0)
    /\ UNCHANGED <<cfgVars, result, sinceAttempt, network_interface,
                   ota_context, sink, agentVars, events, records, cb_calls>>

(* What cy_wcm_connect_ap can return at this point of the run: success,   *)
(* the usual error code, or, while the run has had fewer than rare_budget  *)
(* of them, any other error code.                                          *)
UsualErr == CY_RSLT_SUCCESS + 1

RareErrs ==
    Cardinality({i \in 1..Len(out) :
                    \E r \in ErrCodes \ {UsualErr} : out[i] = MsgConnFailed(r)})

ConnectResults ==
    {r \in ResultCodes :
        r \in {CY_RSLT_SUCCESS, UsualErr} \/ RareErrs < rare_budget}

(* Variant: a successful connect does not leave the loop. *)
ConnectAp_NoReturn ==
    /\ pc = "connect"
    /\ \E r \in ConnectResults :
          /\ result' = r
          /\ calls' = Append(calls, Call("cy_wcm_connect_ap", r = CY_RSLT_SUCCESS))
          /\ out' = Append(out, IF r = CY_RSLT_SUCCESS THEN MsgConnected
                                                       ELSE MsgConnFailed(r))
          /\ pc' = "delay"
    /\ sinceAttempt' = 0
    /\ UNCHANGED <<cfgVars, conn_retries, wcm_result, network_interface,
                   ota_context, sink, agentVars, events, records, cb_calls>>

(* Variant: no delay after the last attempt the bound allows. *)
ConnectAp_SkipsLastDelay ==
    /\ pc = "connect"
    /\ \E r \in ConnectResults :
          /\ result' = r
          /\ calls' = Append(calls, Call("cy_wcm_connect_ap", r = CY_RSLT_SUCCESS))
          /\ IF r = CY_RSLT_SUCCESS
             THEN /\ out' = Append(out, MsgConnected)
                  /\ pc' = "join_return"
             ELSE IF conn_retries + 1 < cfg_retries
                  THEN /\ out' = Append(out, MsgConnFailed(r))
                       /\ pc' = "delay"
                  ELSE /\ out' = out \o <<MsgConnFailed(r), MsgExceeded>>
                       /\ pc' = "join_return"
    /\ sinceAttempt' = 0
    /\ UNCHANGED <<cfgVars, conn_retries, wcm_result, network_interface,
                   ota_context, sink, agentVars, events, records, cb_calls>>

(* One cy_wcm_connect_ap call and the test of its result. *)
ConnectAp ==
    /\ pc = "connect"
    /\ \E r \in ConnectResults :
          /\ result' = r
          /\ calls' = Append(calls, Call("cy_wcm_connect_ap", r = CY_RSLT_SUCCESS))
          /\ IF r = CY_RSLT_SUCCESS
             THEN /\ out' = Append(out, MsgConnected)
                  /\ pc' = "join_return"
             ELSE /\ out' = Append(out, MsgConnFailed(r))
                  /\ pc' = "delay"
    /\ sinceAttempt' = 0
    /\ UNCHANGED <<cfgVars, conn_retries, wcm_result, network_interface,
                   ota_context, sink, agentVars, events, records, cb_calls>>

(* vTaskDelay after a failed attempt: at least the configured delay        *)
(* passes; then conn_retries++ and the loop test.                          *)
RetryDelay ==
    /\ pc = "delay"
    /\ \E j \in 0..MaxJitter : sinceAttempt' = sinceAttempt + WIFI_CONN_RETRY_DELAY_MS + j
    /\ calls' = Append(calls, Call("vTaskDelay", TRUE))
    /\ conn_retries' = conn_retries + 1
    /\ ForTest(conn_retries + 1)
    /\ UNCHANGED <<cfgVars, result, wcm_result, network_interface,
                   ota_context, sink, agentVars, events, records, cb_calls>>

(* ota_task: the test of what connect_to_wifi_ap returned. *)
JoinReturn ==
    /\ pc = "join_return"
    /\ IF result # CY_RSLT_SUCCESS
       THEN Fatal(MsgWifiFatal, "sdk_init")
       ELSE /\ pc' = "sdk_init"
            /\ out' = out
    /\ UNCHANGED <<cfgVars, conn_retries, result, wcm_result, sinceAttempt,
                   calls, network_interface, ota_context, sink, agentVars,
                   events, records, cb_calls>>

(* A local initialisation stage of ota_task: one call, fatal on failure. *)
InitStage(at, fn, msg, next) ==
    /\ pc = at
    /\ \E ok \in BOOLEAN :
          /\ calls' = Append(calls, Call(fn, ok))
          /\ IF ok
             THEN /\ pc' = next
                  /\ out' = out
             ELSE Fatal(msg, next)
    /\ UNCHANGED <<cfgVars, conn_retries, result, wcm_result, sinceAttempt,
                   network_interface, ota_context, sink, agentVars, events,
                   records, cb_calls>>

SdkInit     == InitStage("sdk_init", "IotSdk_Init", MsgSdkFatal, "sockets_init")
SocketsInit == InitStage("sockets_init", "IotNetworkSecureSockets_Init",
                         MsgSocketsFatal, "mqtt_init")
MqttInit    == InitStage("mqtt_init", "IotMqtt_Init", MsgMqttFatal,
                         "agent_start")

(* Variant: the agent is started twice with the same parameters. *)
AgentStartCall_Twice ==
    /\ pc = "agent_start"
    /\ network_interface' = NetIf
    /\ sink' = sink \o <<ota_agent_params, ota_agent_params>>
    /\ calls' = calls \o <<Call("cy_ota_agent_start", TRUE),
                            Call("cy_ota_agent_start", TRUE)>>
    /\ pc' = "agent_starting"
    /\ out' = out
    /\ agentAlive' = TRUE
    /\ UNCHANGED <<cfgVars, conn_retries, result, wcm_result, sinceAttempt,
                   ota_context, agentState, lastError, events, records, cb_calls>>

(* ota_task: the network interface is stored and cy_ota_agent_start is     *)
(* called with the agent parameters.  A start that will succeed creates    *)
(* the agent's own execution context during the call; a failing start      *)
(* leaves no agent behind and returns at once.                             *)
AgentStartCall ==
    /\ pc = "agent_start"
    /\ network_interface' = NetIf
    /\ sink' = Append(sink, ota_agent_params)
    /\ \E ok \in BOOLEAN :
          /\ calls' = Append(calls, Call("cy_ota_agent_start", ok))
          /\ IF ok
             THEN /\ pc' = "agent_starting"
                  /\ out' = out
                  /\ agentAlive' = TRUE
             ELSE /\ Fatal(MsgAgentFatal, "suspend")
                  /\ agentAlive' = agentAlive
    /\ UNCHANGED <<cfgVars, conn_retries, result, wcm_result, sinceAttempt,
                   ota_context, agentState, lastError, events, records, cb_calls>>

(* cy_ota_agent_start stores the handle through its third argument,       *)
(* &ota_context, and returns CY_RSLT_SUCCESS to ota_task.                  *)
AgentStartReturn ==
    /\ pc = "agent_starting"
    /\ ota_context' = Handle
    /\ pc' = "suspend"
    /\ UNCHANGED <<cfgVars, conn_retries, result, wcm_result, sinceAttempt,
                   calls, out, network_interface, sink, agentVars, events,
                   records, cb_calls>>

(* Variant: instead of suspending, the task runs the bring-up again. *)
Suspend_Restart ==
    /\ pc = "suspend"
    /\ calls' = calls
    /\ pc' = "start"
    /\ UNCHANGED <<cfgVars, conn_retries, result, wcm_result, sinceAttempt,
                   out, network_interface, ota_context, sink, agentVars,
                   events, records, cb_calls>>

(* vTaskSuspend(NULL): the task never runs again. *)
Suspend ==
    /\ pc = "suspend"
    /\ calls' = Append(calls, Call("vTaskSuspend", TRUE))
    /\ pc' = "suspended"
    /\ UNCHANGED <<cfgVars, conn_retries, result, wcm_result, sinceAttempt,
                   out, network_interface, ota_context, sink, agentVars,
                   events, records, cb_calls>>

----------------------------------------------------------------------------
(* The OTA middleware as ota_callback uses it *)

(* Text lookups of the middleware: a descriptor for every code, the        *)
(* "unknown" descriptor for a code outside the known set.                  *)
cy_ota_get_callback_reason_string(reason) ==
    IF reason \in KnownReasons THEN <<"reason", reason>> ELSE <<"unknown">>

(* Variant: the state table is indexed without a fallback, a code outside  *)
(* it has no descriptor.                                                   *)
cy_ota_get_state_string_NoFallback(state) ==
    IF state \in KnownStates THEN <<"state", state>> ELSE <<>>

cy_ota_get_state_string(state) ==
    IF state \in KnownStates THEN <<"state", state>> ELSE <<"unknown">>

cy_ota_get_error_string(err) ==
    IF err \in KnownErrors THEN <<"error", err>> ELSE <<"unknown">>

(* cy_ota_get_state(ctx, &ota_state): the values ota_state can hold after  *)
(* the call.  With the agent's handle it is the agent's current state;     *)
(* with a null context the middleware writes nothing and the local keeps   *)
(* whatever the stack held.                                                *)
cy_ota_get_state(ctx) ==
    IF ctx = Handle THEN {agentState} ELSE StateCodes

(* The dereference of cb_arg: the only context the sink is ever            *)
(* registered with is &ota_context.                                        *)
Deref(cb_arg) == ota_context

(* The line ota_callback prints. *)
Record(ctx, reason, value, ota_state) ==
    [ctx        |-> ctx,
     reason     |-> reason,
     reason_str |-> cy_ota_get_callback_reason_string(reason),
     value      |-> value,
     state      |-> ota_state,
     state_str  |-> cy_ota_get_state_string(ota_state),
     error_str  |-> cy_ota_get_error_string(lastError)]

(* The functions one invocation of ota_callback calls, each with the       *)
(* number of times it calls it: cy_ota_get_state, then printf with the     *)
(* three text lookups and cy_ota_last_error among its arguments (C leaves  *)
(* the order in which the arguments are evaluated open, so a bag).  The    *)
(* body has no loop, no branch and no other call.                          *)
CallbackCalls ==
    SetToBag({"cy_ota_get_state",
              "printf",
              "cy_ota_get_callback_reason_string",
              "cy_ota_get_state_string",
              "cy_ota_last_error",
              "cy_ota_get_error_string"})

(* Variant: a sink that finds a null handle waits a retry interval and     *)
(* queries the state once more before it prints.                           *)
ota_callback_WaitsForHandle(reason, value, cb_arg) ==
    LET ctx == Deref(cb_arg) IN
    /\ \E ota_state \in cy_ota_get_state(ctx) :
          records' = Append(records, Record(ctx, reason, value, ota_state))
    /\ cb_calls' = Append(cb_calls,
                          IF ctx = NullCtx
                          THEN CallbackCalls
                                   (+) SetToBag({"vTaskDelay", "cy_ota_get_state"})
                          ELSE CallbackCalls)
    /\ UNCHANGED <<cfgVars, taskVars, ota_context, sink, agentVars>>

(* ota_callback(reason, value, cb_arg): resolve the handle, query the      *)
(* state, print one line, return.                                          *)
ota_callback(reason, value, cb_arg) ==
    LET ctx == Deref(cb_arg) IN
    /\ \E ota_state \in cy_ota_get_state(ctx) :
          records' = Append(records, Record(ctx, reason, value, ota_state))
    /\ cb_calls' = Append(cb_calls, CallbackCalls)
    /\ UNCHANGED <<cfgVars, taskVars, ota_context, sink, agentVars>>

(* Variant: the agent keeps an event with a reason outside the known set   *)
(* to itself and does not call the sink for it.                            *)
Deliver_KnownOnly(ev, cb_arg) ==
    IF ev[1] \in KnownReasons
    THEN ota_callback(ev[1], ev[2], cb_arg)
    ELSE UNCHANGED <<cfgVars, taskVars, ota_context, sink, agentVars,
                     records, cb_calls>>

(* How the agent delivers an event: it calls the cb_func it was given      *)
(* once, with the event's reason and value and the cb_arg it was given,    *)
(* on its own execution context, and the call has returned before it       *)
(* delivers another event.                                                 *)
Deliver(ev, cb_arg) == ota_callback(ev[1], ev[2], cb_arg)

(* Variant: events reach the sink whether or not the agent was started. *)
AgentEmit_AnyTime ==
    /\ Len(events) < event_budget
    /\ \E ev \in AgentEvents :
          /\ events' = Append(events, ev)
          /\ Deliver(ev, ota_agent_params.cb_arg)

(* The agent, on its own execution context, emits an event and delivers    *)
(* it to the sink it was given.                                            *)
AgentEmit ==
    /\ agentAlive
    /\ Len(events) < event_budget
    /\ \E ev \in AgentEvents :
          /\ events' = Append(events, ev)
          /\ Deliver(ev, sink[Len(sink)].cb_arg)

(* The agent moves on: another state, another last error. *)
AgentStep ==
    /\ agentAlive
    /\ \E sit \in AgentSituations :
          /\ sit # [state |-> agentState, err |-> lastError]
          /\ agentState' = sit.state
          /\ lastError' = sit.err
    /\ UNCHANGED <<cfgVars, taskVars, ota_context, sink, agentAlive, events,
                   records, cb_calls>>

----------------------------------------------------------------------------
(* Steps of the bring-up task (those inside cy_ota_agent_start included) *)
TaskNext ==
    \/ WcmInit
    \/ ConnectAp
    \/ RetryDelay
    \/ JoinReturn
    \/ SdkInit
    \/ SocketsInit
    \/ MqttInit
    \/ AgentStartCall
    \/ AgentStartReturn
    \/ Suspend

Next ==
    \/ WcmInit
    \/ ConnectAp
    \/ RetryDelay
    \/ JoinReturn
    \/ SdkInit
    \/ SocketsInit
    \/ MqttInit
    \/ AgentStartCall
    \/ AgentStartReturn
    \/ Suspend
    \/ AgentEmit
    \/ AgentStep

Spec == Init /\ [][Next]_vars

SinkSpec == SinkInit /\ [][Next]_vars

(* The scheduler runs the bring-up task whenever it is ready, and every    *)
(* external call returns.                                                  *)
FairSpec == Spec /\ WF_vars(TaskNext)

----------------------------------------------------------------------------
(* The sequencer's state, read off the task's position. *)
SeqState ==
    CASE pc = "start"                            -> "INIT"
      [] pc \in {"connect", "delay", "join_return"} -> "NETWORK_JOINING"
      [] pc = "sdk_init"                         -> "NETWORK_JOINED"
      [] pc = "sockets_init"                     -> "RUNTIME_READY"
      [] pc = "mqtt_init"                        -> "TRANSPORT_READY"
      [] pc \in {"agent_start", "agent_starting"} -> "MESSAGING_READY"
      [] pc \in {"suspend", "suspended"}         -> "AGENT_ACTIVE"
      [] pc = "halted"                           -> "HALTED"

TypeOK ==
    /\ cfg_retries \in RetryBounds
    /\ ndebug \in BOOLEAN
    /\ event_budget \in 1..MaxEvents
    /\ rare_budget \in 0..MaxRareErrs
    /\ pc \in {"start", "connect", "delay", "join_return", "sdk_init",
               "sockets_init", "mqtt_init", "agent_start", "agent_starting",
               "suspend", "suspended", "halted"}
    /\ conn_retries \in 0..cfg_retries
    /\ result \in ResultCodes \cup {NoResult}
    /\ ota_context \in {NullCtx, Handle}
    /\ agentAlive \in BOOLEAN
    /\ agentState \in StateCodes
    /\ lastError \in AgentErrors
    /\ Len(events) <= event_budget

----------------------------------------------------------------------------
(* Reading the histories *)

Idx(fn)   == {i \in 1..Len(calls) : calls[i].fn = fn}
Count(fn) == Cardinality(Idx(fn))

Attempts == Count("cy_wcm_connect_ap")
SuccIdx  == {i \in Idx("cy_wcm_connect_ap") : calls[i].ok}
AllConnectsFailed == SuccIdx = {}

InitStages  == {"IotSdk_Init", "IotNetworkSecureSockets_Init", "IotMqtt_Init",
                "cy_ota_agent_start"}
LaterStages == InitStages \cup {"vTaskSuspend"}
JoinCalls   == {"cy_wcm_init", "cy_wcm_connect_ap", "vTaskDelay"}

(* Position of a call in the bring-up order. *)
StageRank(fn) ==
    CASE fn \in JoinCalls                     -> 1
      [] fn = "IotSdk_Init"                   -> 2
      [] fn = "IotNetworkSecureSockets_Init"  -> 3
      [] fn = "IotMqtt_Init"                  -> 4
      [] fn = "cy_ota_agent_start"            -> 5
      [] fn = "vTaskSuspend"                  -> 6

JoinOver == pc \notin {"start", "connect", "delay"}

(* The join and every later stage have been called and reported success. *)
AllStagesOk ==
    /\ SuccIdx # {}
    /\ \A fn \in InitStages : \E i \in Idx(fn) : calls[i].ok

----------------------------------------------------------------------------
(* Parts of C1: the state after an all-failing join, and the steps. *)
C1_Exhausted ==
    (JoinOver /\ AllConnectsFailed) =>
        /\ Attempts = cfg_retries
        /\ pc \in {"join_return", "halted"}
        /\ \A i \in 1..Len(calls) : calls[i].fn \notin LaterStages
        /\ pc = "halted" => out[Len(out)] = MsgWifiFatal

C1_Step ==
    /\ (Attempts' = Attempts + 1 /\ Attempts >= 1) =>
          /\ sinceAttempt >= WIFI_CONN_RETRY_DELAY_MS
          /\ calls[Len(calls)].fn = "vTaskDelay"
    /\ (pc = "join_return" /\ AllConnectsFailed /\ pc' # pc) => pc' = "halted"

(* C1: when every cy_wcm_connect_ap call fails, connect_to_wifi_ap makes   *)
(* exactly N attempts (N the configured retry bound), a vTaskDelay of at   *)
(* least the retry delay D lies between one attempt and the next, and the  *)
(* run goes from the return of connect_to_wifi_ap to HALTED with the       *)
(* Wi-Fi diagnostic and without a call of any later stage.                 *)
C1_AlwaysFailingJoin == [](C1_Exhausted) /\ [][C1_Step]_vars

C1_Witness ==
    /\ pc = "halted"
    /\ AllConnectsFailed
    /\ cfg_retries = MAX_CONNECTION_RETRIES
    /\ sinceAttempt >= WIFI_CONN_RETRY_DELAY_MS
    /\ Attempts = MAX_CONNECTION_RETRIES

(* Parts of C2: the state after a successful connect, and the step. *)
C2_Joined ==
    \A k \in SuccIdx :
        /\ Attempts = Cardinality({i \in Idx("cy_wcm_connect_ap") : i <= k})
        /\ Attempts <= cfg_retries
        /\ \A j \in 1..Len(calls) : j > k => calls[j].fn \notin JoinCalls
        /\ result = CY_RSLT_SUCCESS
        /\ pc \notin {"connect", "delay"}
        /\ \A i \in 1..Len(out) : out[i] \notin {MsgWifiFatal, MsgExceeded}
        /\ Len(calls) > k => calls[k + 1].fn = "IotSdk_Init"
        /\ pc = "halted" => Len(calls) > k

C2_Step == (pc = "join_return" /\ SuccIdx # {} /\ pc' # pc) => pc' = "sdk_init"

(* C2: when the connect succeeds on attempt k (1 <= k <= N) after k-1      *)
(* failures, exactly k attempts are made and none follows the success,     *)
(* connect_to_wifi_ap returns success, and ota_task does not halt at the   *)
(* join but goes on to IotSdk_Init.                                        *)
C2_SuccessOnAttemptK == [](C2_Joined) /\ [][C2_Step]_vars

C2_Witness ==
    /\ pc = "sdk_init"
    /\ Attempts = 3
    /\ SuccIdx # {}
    /\ result = CY_RSLT_SUCCESS

(* C3: the stages are called only in the order join, IotSdk_Init,          *)
(* IotNetworkSecureSockets_Init, IotMqtt_Init, cy_ota_agent_start; a stage *)
(* is called only after the stage before it reported success; after a     *)
(* failure of one of the four later stages the task is halted and no       *)
(* further call is made.                                                   *)
C3_StageOrder ==
    /\ \A i, j \in 1..Len(calls) :
          i < j => StageRank(calls[i].fn) <= StageRank(calls[j].fn)
    /\ \A j \in 1..Len(calls) :
          calls[j].fn \in InitStages =>
              \E i \in 1..(j - 1) :
                  /\ calls[i].ok
                  /\ IF calls[j].fn = "IotSdk_Init"
                     THEN calls[i].fn = "cy_wcm_connect_ap"
                     ELSE /\ calls[i].fn \in InitStages
                          /\ StageRank(calls[i].fn) = StageRank(calls[j].fn) - 1
    /\ \A i \in 1..Len(calls) :
          (calls[i].fn \in InitStages /\ ~calls[i].ok) =>
              /\ i = Len(calls)
              /\ pc = "halted"

C3_Witness ==
    /\ pc = "halted"
    /\ Len(calls) > 0
    /\ calls[Len(calls)] = Call("IotNetworkSecureSockets_Init", FALSE)
    /\ Count("IotSdk_Init") = 1

(* Parts of C4: the terminal positions and the loop's bound. *)
C4_Terminal == pc \in {"suspended", "halted"}

C4_LoopBounded ==
    /\ conn_retries <= cfg_retries
    /\ Attempts <= cfg_retries

(* The task always comes to rest, suspended or halted, and the retry loop  *)
(* is left after at most N attempts.                                       *)
C4_BringUpTerminates == [](C4_LoopBounded) /\ <>(C4_Terminal)

(* Part of C4: the task suspends itself only in AGENT_ACTIVE proper, with  *)
(* every stage having succeeded.                                           *)
C4_SuspendedIsActive == pc = "suspended" => AllStagesOk

(* C4: bring-up terminates: with the task scheduled and every external     *)
(* call returning, every run reaches AGENT_ACTIVE (all stages succeeded,   *)
(* the task suspended) or HALTED, whatever the calls return; the retry     *)
(* loop is left after at most N attempts.                                  *)
C4_ActiveOrHalted ==
    /\ [](C4_LoopBounded)
    /\ [](C4_SuspendedIsActive)
    /\ <>(C4_Terminal)

C4_Witness ==
    /\ pc = "suspended"
    /\ Attempts = MAX_CONNECTION_RETRIES
    /\ SeqState = "AGENT_ACTIVE"

(* C5: only the join is retried: IotSdk_Init, IotNetworkSecureSockets_Init,*)
(* IotMqtt_Init and cy_ota_agent_start are each called at most once, a     *)
(* failing one is the last call of the run and leaves the task halted,     *)
(* and no join call follows a call of one of them.                         *)
C5_OnlyJoinRetried ==
    /\ \A fn \in InitStages : Count(fn) <= 1
    /\ \A i \in 1..Len(calls) :
          calls[i].fn \in InitStages =>
              /\ \A j \in 1..Len(calls) : j > i => calls[j].fn \notin JoinCalls
              /\ ~calls[i].ok => (i = Len(calls) /\ SeqState = "HALTED")

C5_Witness ==
    /\ SeqState = "HALTED"
    /\ Len(calls) > 0
    /\ calls[Len(calls)] = Call("IotMqtt_Init", FALSE)
    /\ Attempts = 2

(* C6: when the join and all later stages have succeeded, the sink         *)
(* (ota_callback with context &ota_context) has been handed to the agent   *)
(* exactly once, by the one cy_ota_agent_start call of the run, and the    *)
(* task is on its way into suspension in AGENT_ACTIVE; a run halted before *)
(* that call has handed the sink to nobody.                                *)
C6_SinkRegisteredOnce ==
    /\ Len(sink) = Count("cy_ota_agent_start")
    /\ Len(sink) <= 1
    /\ \A i \in 1..Len(sink) :
          sink[i] = [cb_func |-> "ota_callback", cb_arg |-> "&ota_context"]
    /\ AllStagesOk =>
          /\ Len(sink) = 1
          /\ Count("cy_ota_agent_start") = 1
          /\ agentAlive
          /\ pc \in {"agent_starting", "suspend", "suspended"}
    /\ (SeqState = "HALTED" /\ Count("cy_ota_agent_start") = 0) => sink = <<>>

C6_Witness ==
    /\ SeqState = "AGENT_ACTIVE"
    /\ AllStagesOk
    /\ Attempts = 1
    /\ Len(sink) = 1

C6_WitnessHalted ==
    /\ SeqState = "HALTED"
    /\ sink = <<>>

(* Parts of C7.  Calls that take a lock and calls that block the caller:   *)
(* those of FreeRTOS and of the RTOS abstraction that the platform of      *)
(* this source offers (the task itself uses vTaskDelay and vTaskSuspend).  *)
LockCalls == {"xSemaphoreTake", "xSemaphoreTakeRecursive", "cy_rtos_get_mutex",
              "taskENTER_CRITICAL", "vTaskSuspendAll"}
WaitCalls == {"vTaskDelay", "vTaskDelayUntil", "vTaskSuspend",
              "cy_rtos_delay_milliseconds", "xQueueReceive",
              "xEventGroupWaitBits", "ulTaskNotifyTake"}

(* The reads of the agent the sink is allowed: the state query, the last   *)
(* error and the three text lookups.                                       *)
SinkReads == {"cy_ota_get_state", "cy_ota_last_error",
              "cy_ota_get_callback_reason_string", "cy_ota_get_state_string",
              "cy_ota_get_error_string"}

(* What a step that prints a record leaves alone. *)
C7_Frame ==
    /\ agentState' = agentState
    /\ lastError' = lastError
    /\ agentAlive' = agentAlive
    /\ ota_context' = ota_context
    /\ sink' = sink
    /\ SeqState' = SeqState
    /\ UNCHANGED taskVars

(* What the invocation behind that step called: reads of the agent and     *)
(* one printf, nothing that locks or waits, and nothing twice.             *)
C7_NoLockWaitRetry ==
    /\ Len(cb_calls') = Len(cb_calls) + 1
    /\ LET made == cb_calls'[Len(cb_calls')]
       IN  /\ BagToSet(made) \cap (LockCalls \cup WaitCalls) = {}
           /\ \A f \in BagToSet(made) : CopiesIn(f, made) = 1
           /\ BagToSet(made) \subseteq SinkReads \cup {"printf"}
           /\ CopiesIn("printf", made) = 1

C7_SinkStep ==
    Len(records') # Len(records) => C7_Frame /\ C7_NoLockWaitRetry

(* C7: an invocation of ota_callback changes nothing but the output: the   *)
(* agent's state and last error, the handle in ota_context, the sink       *)
(* registration and every variable of the bring-up task (so the            *)
(* sequencer's state too) are the same after the call as before it; and    *)
(* the invocation calls no function that takes a lock or blocks the        *)
(* caller and calls no function a second time: it makes its reads of the   *)
(* agent once each and prints once, whatever handle, reason, value and     *)
(* state it finds.                                                         *)
C7_SinkReadsOnly == [][C7_SinkStep]_vars

C7_Witness ==
    /\ Len(records) = 2
    /\ Len(cb_calls) = 2
    /\ records[1].ctx = NullCtx
    /\ records[2].ctx = Handle
    /\ records[1].reason # records[2].reason
    /\ records[1].state # records[2].state
    /\ cb_calls[1] = CallbackCalls
    /\ cb_calls[2] = CallbackCalls

SeqRank(st) ==
    CASE st = "INIT"            -> 0
      [] st = "NETWORK_JOINING" -> 1
      [] st = "NETWORK_JOINED"  -> 2
      [] st = "RUNTIME_READY"   -> 3
      [] st = "TRANSPORT_READY" -> 4
      [] st = "MESSAGING_READY" -> 5
      [] st = "AGENT_ACTIVE"    -> 6
      [] st = "HALTED"          -> 7

C9_Step ==
    /\ SeqState = "AGENT_ACTIVE" =>
          /\ SeqState' = "AGENT_ACTIVE"
          /\ Len(calls') >= Len(calls)
          /\ \A i \in 1..Len(calls') :
                i > Len(calls) => calls'[i].fn = "vTaskSuspend"
    /\ pc = "suspended" => UNCHANGED taskVars
    /\ SeqState = "HALTED" => UNCHANGED <<taskVars, ota_context, sink>>
    /\ SeqState # "HALTED" => SeqRank(SeqState') >= SeqRank(SeqState)

(* C9: AGENT_ACTIVE and HALTED are absorbing and the sequencer never       *)
(* moves backwards: from AGENT_ACTIVE the task only suspends itself, makes *)
(* no further stage call and never halts; from HALTED it does nothing; in  *)
(* every step the sequencer state stays or moves forward along INIT ..     *)
(* AGENT_ACTIVE, or moves to HALTED.                                       *)
C9_TerminalAbsorbing == [][C9_Step]_vars

C9_Witness ==
    /\ pc = "suspended"
    /\ calls[Len(calls)].fn = "vTaskSuspend"
    /\ Len(records) = event_budget
    /\ records[Len(records)].ctx = Handle

(* Parts of C10: the fatal diagnostics and the failures in the history. *)
FatalMsgs == {MsgWifiFatal, MsgSdkFatal, MsgSocketsFatal, MsgMqttFatal,
              MsgAgentFatal}

FatalLines == {i \in 1..Len(out) : out[i] \in FatalMsgs}

FatalMsgOf(fn) ==
    CASE fn = "IotSdk_Init"                  -> MsgSdkFatal
      [] fn = "IotNetworkSecureSockets_Init" -> MsgSocketsFatal
      [] fn = "IotMqtt_Init"                 -> MsgMqttFatal
      [] fn = "cy_ota_agent_start"           -> MsgAgentFatal
      [] OTHER                               -> MsgWifiFatal

FailedInit == {i \in 1..Len(calls) : calls[i].fn \in InitStages /\ ~calls[i].ok}

JoinFailed == JoinOver /\ AllConnectsFailed

(* C10: the task is halted exactly when a stage has failed, and then the   *)
(* last line it printed is its one fatal diagnostic, the one naming the    *)
(* stage that failed (connect_to_wifi_ap's own per-attempt and exhaustion  *)
(* lines come before it in the Wi-Fi case); as long as the task is not     *)
(* halted no fatal diagnostic has been printed and no stage has failed.    *)
C10_HaltDiagnostic ==
    /\ pc = "halted" =>
          /\ FatalLines = {Len(out)}
          /\ (FailedInit # {}) # JoinFailed
          /\ FailedInit # {} =>
                /\ FailedInit = {Len(calls)}
                /\ out[Len(out)] = FatalMsgOf(calls[Len(calls)].fn)
          /\ JoinFailed => out[Len(out)] = MsgWifiFatal
    /\ pc # "halted" =>
          /\ FatalLines = {}
          /\ FailedInit = {}
          /\ pc # "join_return" => ~JoinFailed

(* The same in a build with assertions. *)
C10_WhenAsserting == ~ndebug => C10_HaltDiagnostic

C10_Witness ==
    /\ pc = "halted"
    /\ out[Len(out)] = MsgAgentFatal
    /\ Attempts = 2

C10_WitnessWifi ==
    /\ pc = "halted"
    /\ out[Len(out)] = MsgWifiFatal
    /\ Len(out) = MAX_CONNECTION_RETRIES + 2

C12_Step ==
    Len(records') = Len(records) + 1 =>
        LET rec == records'[Len(records')]
            ev  == events'[Len(events')]
        IN  /\ rec.ctx = Handle
            /\ rec.reason = ev[1]
            /\ rec.reason_str = cy_ota_get_callback_reason_string(ev[1])
            /\ rec.value = ev[2]
            /\ rec.state = agentState
            /\ rec.state_str = cy_ota_get_state_string(agentState)
            /\ rec.error_str = cy_ota_get_error_string(lastError)

(* C12: for every event (r, v) delivered while the agent is in state s     *)
(* with last error e, the record printed by ota_callback holds the agent's *)
(* handle, r and its descriptor, v, s and its descriptor, and the          *)
(* descriptor of e.                                                        *)
C12_RecordContent == [][C12_Step]_vars

(* The same for the invocations that find the handle in ota_context. *)
C12_StepWithHandle == ota_context = Handle => C12_Step

C12_RecordContentWithHandle == [][C12_StepWithHandle]_vars

C12_WitnessDownloading ==
    \E i \in 1..Len(records) :
        /\ records[i].ctx = Handle
        /\ records[i].value = 42
        /\ records[i].state = 2
        /\ records[i].state_str = <<"state", 2>>

(* C14: whenever ota_callback runs, the handle it reads through its        *)
(* context is the activated agent's handle, never the initial null value   *)
(* of ota_context.                                                         *)
C14_HandleResolved ==
    \A i \in 1..Len(records) : records[i].ctx = Handle

----------------------------------------------------------------------------
(* Parts of C13. *)
BeforeAgentStart == Count("cy_ota_agent_start") = 0

C13_SinkSilent ==
    (SeqRank(SeqState) <= SeqRank("TRANSPORT_READY") \/ BeforeAgentStart) =>
        /\ BeforeAgentStart
        /\ sink = <<>>
        /\ ~agentAlive
        /\ events = <<>>
        /\ records = <<>>
        /\ ota_context = NullCtx

C13_DelayStep ==
    (pc = "delay" /\ pc' # pc) =>
        /\ calls' = Append(calls, Call("vTaskDelay", TRUE))
        /\ UNCHANGED <<ota_context, sink, agentVars, events, records>>

(* C13: while the sequencer is in INIT, NETWORK_JOINING, NETWORK_JOINED,   *)
(* RUNTIME_READY or TRANSPORT_READY, that is before cy_ota_agent_start has *)
(* been called, ota_callback is never invoked; a retry delay is a step of  *)
(* the bring-up task alone and touches nothing of the sink or the agent.   *)
C13_RetryApartFromSink == [](C13_SinkSilent) /\ [][C13_DelayStep]_vars

C13_Witness ==
    /\ pc = "mqtt_init"
    /\ Count("vTaskDelay") >= 1
    /\ Attempts >= 2
    /\ records = <<>>

----------------------------------------------------------------------------
(* Parts of C15. *)
FailedConnect(i) == calls[i].fn = "cy_wcm_connect_ap" /\ ~calls[i].ok

FailIdx == {i \in 1..Len(calls) : FailedConnect(i)}

C15_AfterFailure ==
    \A i \in 1..Len(calls) :
        FailedConnect(i) =>
            IF i = Len(calls)
            THEN pc = "delay"
            ELSE /\ calls[i + 1].fn = "vTaskDelay"
                 /\ i + 1 < Len(calls) => calls[i + 2].fn # "vTaskDelay"

C15_AfterSuccess ==
    \A i \in 1..Len(calls) :
        (calls[i].fn = "cy_wcm_connect_ap" /\ calls[i].ok) =>
            /\ pc # "delay"
            /\ i < Len(calls) => calls[i + 1].fn # "vTaskDelay"

C15_DelayOnlyAfterFailure ==
    /\ \A i \in 1..Len(calls) :
          calls[i].fn = "vTaskDelay" => (i > 1 /\ FailedConnect(i - 1))
    /\ pc = "delay" => (calls # <<>> /\ FailedConnect(Len(calls)))
    /\ (calls # <<>> /\ calls[Len(calls)].fn = "vTaskDelay") =>
           sinceAttempt >= WIFI_CONN_RETRY_DELAY_MS

C15_Counts ==
    LET delays == Count("vTaskDelay")
        failed == Cardinality(FailIdx)
    IN  /\ pc # "delay" => delays = failed
        /\ (JoinOver /\ failed = Attempts) => delays = cfg_retries
        /\ failed < Attempts => delays = Attempts - 1

(* C15: every failed connect attempt, the last one the bound allows        *)
(* included, is followed at once by exactly one vTaskDelay of at least D,  *)
(* a successful attempt by none; so a finished join has made as many       *)
(* delays as failed attempts: N when all N fail, k-1 when attempt k        *)
(* succeeds.                                                               *)
C15_DelayPerFailure ==
    /\ C15_AfterFailure
    /\ C15_AfterSuccess
    /\ C15_DelayOnlyAfterFailure
    /\ C15_Counts

C15_Witness ==
    /\ pc = "halted"
    /\ AllConnectsFailed
    /\ cfg_retries = MAX_CONNECTION_RETRIES
    /\ Attempts = MAX_CONNECTION_RETRIES
    /\ Count("vTaskDelay") = MAX_CONNECTION_RETRIES

C15_WitnessSuccess ==
    /\ pc = "suspended"
    /\ Attempts = 3
    /\ Count("vTaskDelay") = 2

----------------------------------------------------------------------------
(* Parts of C16. *)
C16_Returned ==
    JoinOver =>
        /\ result = CY_RSLT_SUCCESS <=> SuccIdx # {}
        /\ AllConnectsFailed =>
              /\ result \in ErrCodes
              /\ Attempts = cfg_retries
              /\ \E i \in 1..Len(out) - 1 :
                    /\ out[i] = MsgConnFailed(result)
                    /\ out[i + 1] = MsgExceeded
        /\ (pc = "halted" /\ AllConnectsFailed) =>
               (out # <<>> /\ out[Len(out)] = MsgWifiFatal)

C16_WriteStep ==
    LET connects == /\ Len(calls') = Len(calls) + 1
                    /\ calls'[Len(calls')].fn = "cy_wcm_connect_ap"
    IN  /\ connects => (calls'[Len(calls')].ok <=> result' = CY_RSLT_SUCCESS)
        /\ ~connects => result' = result

C16_FatalStep ==
    (pc = "join_return" /\ result # CY_RSLT_SUCCESS /\ pc' # pc) =>
        /\ pc' = "halted"
        /\ out' = Append(out, MsgWifiFatal)

C16_Step == C16_WriteStep /\ C16_FatalStep

(* The value connect_to_wifi_ap returns, apart from what ota_task does     *)
(* with it.                                                                *)
C16_ReturnedOnly == [](C16_Returned) /\ [][C16_WriteStep]_vars

(* C16: connect_to_wifi_ap returns success exactly when some connect       *)
(* attempt succeeded; result is written by connect attempts only, so when  *)
(* all N attempts fail the value returned is the error code of attempt N,  *)
(* and ota_task halts on it with the Wi-Fi diagnostic.                     *)
C16_ReturnValue == [](C16_Returned) /\ [][C16_Step]_vars

C16_Witness ==
    /\ pc = "halted"
    /\ AllConnectsFailed
    /\ Attempts = cfg_retries
    /\ result = MaxErrCode
    /\ out[Len(out)] = MsgWifiFatal

----------------------------------------------------------------------------
(* C17: cy_wcm_init is called exactly once, as the first call of the run   *)
(* and before the first connect attempt; whatever it returns the next call *)
(* is the first connect attempt, and the number of attempts depends on the *)
(* connect outcomes and the retry bound alone.                             *)
C17_WcmInitIgnored ==
    /\ pc = "start" => (calls = <<>> /\ wcm_result = NoResult)
    /\ pc # "start" =>
          /\ Idx("cy_wcm_init") = {1}
          /\ wcm_result \in WcmResults
          /\ calls[1].ok <=> wcm_result = CY_RSLT_SUCCESS
          /\ Len(calls) = 1 => pc = "connect"
          /\ Len(calls) >= 2 => calls[2].fn = "cy_wcm_connect_ap"
    /\ JoinOver =>
          /\ Attempts \in 1..cfg_retries
          /\ AllConnectsFailed => Attempts = cfg_retries
          /\ \A i \in SuccIdx :
                \A k \in Idx("cy_wcm_connect_ap") : k <= i

C17_Witness ==
    /\ wcm_result # CY_RSLT_SUCCESS
    /\ pc = "suspended"
    /\ Attempts >= 2

====
